---- MODULE Spec2Model ----
(***************************************************************************)
(* The Streamlit dashboard of src/stock_analysis_app.py as a state machine. *)
(*                                                                         *)
(* The script runs top to bottom on every user interaction.  One run is    *)
(* four steps, taken in order: LoadDirectory (lines 33-34), Sidebar (lines *)
(* 35-58), Content (lines 61-79) and Plot (lines 82-166).  What survives a *)
(* run is what st.cache_data keeps (the ticker directory and the price     *)
(* tables) and, as observation of the outside world, the outbound calls    *)
(* made so far.  A step that raises ends the run: Streamlit reports the    *)
(* exception on the page and runs nothing after the raising line.          *)
(*                                                                         *)
(* Numbers.  Prices are integers.  Indicator values are integers counting  *)
(* 1/Resolution of a price unit; Resolution is a multiple of every window  *)
(* length, so that a rolling mean is exact, and a square root is rounded   *)
(* down to that resolution.  A missing value (NaN) is a value of its own.  *)
(*                                                                         *)
(* Static page elements (headers, the title, the user manual, the          *)
(* expander frames) carry no data and are not recorded on the page.        *)
(***************************************************************************)
EXTENDS Integers, Sequences, FiniteSets, TLC

VARIABLES
    pc,               \* where the current run stands
    directory_cache,  \* st.cache_data of get_sp500_components: <<>> or <<value>>
    load_cache,       \* st.cache_data of load_data: (symbol, start, end) -> table
    requests_sent,    \* number of GETs sent to the ticker-list page
    downloads,        \* the provider queries made, in order, as (symbol, start, end)
    ui,               \* the widget values read by the current run
    df,               \* the script's df
    fig,              \* the script's fig
    page              \* the elements rendered by the current run, in order

vars == <<pc, directory_cache, load_cache, requests_sent, downloads, ui, df, fig, page>>

----------------------------------------------------------------------------
(* Bounds of the model *)

\* outbound calls (ticker page requests plus provider queries) in one process lifetime
MaxCalls == 2
\* longest close series drawn for the indicator functions
MaxLen == 4
\* largest close price drawn for the indicator functions
MaxPrice == 3
\* largest window length drawn for the indicator functions
MaxPeriod == 3

----------------------------------------------------------------------------
(* The outside world: the ticker-list page and the market-data provider *)

\* the rows of the constituents table of the ticker-list page
Constituents ==
    << [Symbol |-> "AAPL", Security |-> "Apple Inc."],
       [Symbol |-> "MSFT", Security |-> "Microsoft"] >>

\* what fetching and reading the ticker-list page can come to
FetchOutcomes == {"ok", "unreachable", "structure_changed"}

\* calendar dates, as day numbers
Dates == {1, 2}

\* the provider's daily bar of a symbol on a day
Bar(symbol, day) ==
    LET base == IF symbol = "AAPL" THEN 10 ELSE 20
    IN  [Open |-> base + day, High |-> base + day + 2, Low |-> base + day - 1,
         Close |-> base + 2 * day, Volume |-> 100 * day]

Columns == <<"Open", "High", "Low", "Close", "Volume">>

\* a price table: its column labels, its date index and one series per column
Frame(index, bars) ==
    [columns |-> Columns,
     index   |-> index,
     data    |-> [c \in {"Open", "High", "Low", "Close", "Volume"} |->
                     [i \in 1..Len(index) |-> bars[i][c]]]]

\* the table of a symbol/range the provider has no data for
EmptyFrame == Frame(<<>>, <<>>)

\* df before load_data has run
NoFrame == [columns |-> <<>>, index |-> <<>>, data |-> <<>>]

DayRange(start, end) == [i \in 1..(IF end >= start THEN end - start + 1 ELSE 0) |-> start + i - 1]

\* yf.download(symbol, start, end): one row per trading day of the range, or an
\* empty table when the provider has no data (always so when start is after end)
yf_download(symbol, start, end, has_data) ==
    IF has_data /\ start <= end
    THEN LET days == DayRange(start, end)
         IN  Frame(days, [i \in 1..Len(days) |-> Bar(symbol, days[i])])
    ELSE EmptyFrame

----------------------------------------------------------------------------
(* The cached loaders *)

\* get_sp500_components under st.cache_data: a hit returns the kept value and
\* sends nothing; a miss sends one GET, and keeps the value only if the body
\* returned.  requests.get raises when the page is unreachable; df[0] and
\* df['Symbol'] (lines 17-19) raise when the fetched object does not hold the
\* expected table, as the requests library's own Response object, which
\* cannot be subscripted, does: that is the outcome "structure_changed".
get_sp500_components(cache, outcome) ==
    IF cache # <<>>
    THEN [raised |-> "", value |-> cache[1], cache |-> cache, sent |-> 0]
    ELSE IF outcome = "ok"
    THEN LET tickers == [i \in 1..Len(Constituents) |-> Constituents[i].Symbol]
             tickers_companies_dict ==
                 [s \in {Constituents[i].Symbol : i \in 1..Len(Constituents)} |->
                     (CHOOSE r \in {Constituents[i] : i \in 1..Len(Constituents)} :
                          r.Symbol = s).Security]
             value == [tickers |-> tickers, dict |-> tickers_companies_dict]
         IN  [raised |-> "", value |-> value, cache |-> <<value>>, sent |-> 1]
    ELSE [raised |-> IF outcome = "unreachable" THEN "ConnectionError" ELSE "TypeError",
          value |-> [tickers |-> <<>>, dict |-> <<>>], cache |-> <<>>, sent |-> 1]

\* load_data had it put the two dates in order before the query
load_data_ordered_dates(cache, symbol, start, end, has_data) ==
    LET first == IF start <= end THEN start ELSE end
        last  == IF start <= end THEN end ELSE start
        key   == <<symbol, first, last>>
    IN  IF key \in DOMAIN cache
        THEN [value |-> cache[key], cache |-> cache, queried |-> <<>>]
        ELSE LET data == yf_download(symbol, first, last, has_data)
             IN  [value |-> data, cache |-> cache @@ (key :> data), queried |-> <<key>>]

\* load_data under st.cache_data, keyed by the exact argument tuple
load_data(cache, symbol, start, end, has_data) ==
    LET key == <<symbol, start, end>>
    IN  IF key \in DOMAIN cache
        THEN [value |-> cache[key], cache |-> cache, queried |-> <<>>]
        ELSE LET data == yf_download(symbol, start, end, has_data)
             IN  [value |-> data, cache |-> cache @@ (key :> data), queried |-> <<key>>]

----------------------------------------------------------------------------
(* The export encoder *)

\* df[columns_to_show]
Select(frame, cols) ==
    [columns |-> cols,
     index   |-> frame.index,
     data    |-> [c \in {cols[i] : i \in 1..Len(cols)} |-> frame.data[c]]]

RECURSIVE Flatten(_)
Flatten(lines) ==
    IF lines = <<>> THEN <<>> ELSE Head(lines) \o Flatten(Tail(lines))

\* one CSV line: the fields separated by commas, ended by a newline
RECURSIVE CsvLine(_)
CsvLine(fields) ==
    IF Len(fields) = 0 THEN <<"\n">>
    ELSE IF Len(fields) = 1 THEN <<fields[1], "\n">>
    ELSE <<fields[1], ",">> \o CsvLine(Tail(fields))

\* the encoder had it written df.to_csv(index=False)
convert_df_to_csv_no_index(frame) ==
    LET row(i) == [j \in 1..Len(frame.columns) |-> ToString(frame.data[frame.columns[j]][i])]
    IN  CsvLine(frame.columns) \o Flatten([i \in 1..Len(frame.index) |-> CsvLine(row(i))])

\* df.to_csv().encode('utf-8'): a header line (index label, then the column
\* labels) and one line per row (the date, then the row's values)
\* (the function is pure: its st.cache_data saves the recomputation only)
convert_df_to_csv(frame) ==
    LET header == <<"Date">> \o frame.columns
        row(i) == <<ToString(frame.index[i])>> \o
                  [j \in 1..Len(frame.columns) |-> ToString(frame.data[frame.columns[j]][i])]
    IN  CsvLine(header) \o Flatten([i \in 1..Len(frame.index) |-> CsvLine(row(i))])

----------------------------------------------------------------------------
(* Numbers of the indicator series *)

\* the window lengths the sidebar steps of a run draw: the widget minimum and
\* one longer window
SidebarPeriods == {1, 2}

RECURSIVE Gcd(_, _)
Gcd(a, b) == IF b = 0 THEN a ELSE Gcd(b, a % b)

RECURSIVE Lcm(_)
Lcm(S) ==
    IF S = {} THEN 1
    ELSE LET x == CHOOSE y \in S : TRUE
             rest == Lcm(S \ {x})
         IN  (x * rest) \div Gcd(x, rest)

\* indicator values count 1/Resolution of a price unit
Resolution == 10 * Lcm(SidebarPeriods \cup (1..MaxPeriod))

NaN == [nan |-> TRUE, v |-> 0]
Num(x) == [nan |-> FALSE, v |-> x]

\* float arithmetic on series elements: a missing operand gives a missing result
Plus(a, b) == IF a.nan \/ b.nan THEN NaN ELSE Num(a.v + b.v)
Minus(a, b) == IF a.nan \/ b.nan THEN NaN ELSE Num(a.v - b.v)
Times(k, a) == IF a.nan THEN NaN ELSE Num(k * a.v)

RECURSIVE SumRange(_, _, _)
SumRange(s, lo, hi) == IF lo > hi THEN 0 ELSE s[hi] + SumRange(s, lo, hi - 1)

RECURSIVE SumSquares(_, _, _)
SumSquares(s, lo, hi) == IF lo > hi THEN 0 ELSE s[hi] * s[hi] + SumSquares(s, lo, hi - 1)

RECURSIVE Power(_, _)
Power(b, e) == IF e = 0 THEN 1 ELSE b * Power(b, e - 1)

\* the largest r in lo..hi with r * r <= n
RECURSIVE SqrtBetween(_, _, _)
SqrtBetween(n, lo, hi) ==
    IF lo >= hi THEN lo
    ELSE LET mid == (lo + hi + 1) \div 2
         IN  IF mid * mid <= n THEN SqrtBetween(n, mid, hi) ELSE SqrtBetween(n, lo, mid - 1)

\* (the search stays below the root of the largest machine integer)
Sqrt(n) == SqrtBetween(n, 0, IF n < 46340 THEN n ELSE 46340)

----------------------------------------------------------------------------
(* The indicator calculator *)

\* the rolling mean had it been taken with min_periods=1: a partial-window
\* mean in the first rows
rolling_mean_partial(close, window) ==
    [i \in 1..Len(close) |->
        IF i < window THEN Num((SumRange(close, 1, i) * Resolution) \div i)
        ELSE Num((SumRange(close, i - window + 1, i) * Resolution) \div window)]

\* Series.rolling(window).mean(): the mean of the window closes ending at each
\* row; missing until the window is full (min_periods defaults to window)
rolling_mean(close, window) ==
    [i \in 1..Len(close) |->
        IF i < window THEN NaN
        ELSE Num((SumRange(close, i - window + 1, i) * Resolution) \div window)]

\* Series.rolling(window).std(): the sample standard deviation (ddof = 1) of
\* the same window; missing until the window is full, and for a window of one
\* row, whose sample deviation does not exist
rolling_std(close, window) ==
    [i \in 1..Len(close) |->
        IF i < window \/ window < 2 THEN NaN
        ELSE LET sum == SumRange(close, i - window + 1, i)
                 squares == SumSquares(close, i - window + 1, i)
             IN  Num(Sqrt(((window * squares - sum * sum) * Resolution * Resolution)
                          \div (window * (window - 1))))]

\* lines 130-133
upper_band(close, bb_periods, bb_std) ==
    LET mean == rolling_mean(close, bb_periods)
        std  == rolling_std(close, bb_periods)
    IN  [i \in 1..Len(close) |-> Plus(mean[i], Times(bb_std, std[i]))]

\* the lower band had line 133 repeated line 132's sign
lower_band_plus(close, bb_periods, bb_std) ==
    LET mean == rolling_mean(close, bb_periods)
        std  == rolling_std(close, bb_periods)
    IN  [i \in 1..Len(close) |-> Plus(mean[i], Times(bb_std, std[i]))]

lower_band(close, bb_periods, bb_std) ==
    LET mean == rolling_mean(close, bb_periods)
        std  == rolling_std(close, bb_periods)
    IN  [i \in 1..Len(close) |-> Minus(mean[i], Times(bb_std, std[i]))]

Gain(close, j) == IF close[j] > close[j - 1] THEN close[j] - close[j - 1] ELSE 0
Loss(close, j) == IF close[j] < close[j - 1] THEN close[j - 1] - close[j] ELSE 0

\* Wilder's smoothed average of the gains (up) or losses (~up) at row i > w,
\* as the numerator of a fraction whose denominator is w^(i - w)
RECURSIVE Wilder(_, _, _, _)
Wilder(close, w, i, up) ==
    LET move(j) == IF up THEN Gain(close, j) ELSE Loss(close, j)
    IN  IF i = w + 1
        THEN SumRange([j \in 1..(w + 1) |-> IF j = 1 THEN 0 ELSE move(j)], 2, w + 1)
        ELSE Wilder(close, w, i - 1, up) * (w - 1) + move(i) * Power(w, i - w - 1)

\* talib.RSI(close, timeperiod): TA-Lib accepts periods 2..100000 and fails
\* with TA_BAD_PARAM outside them; the first timeperiod rows are missing (the
\* function's lookback), the rest is 100 * gain / (gain + loss), 0 when both
\* averages are 0
talib_RSI(close, timeperiod) ==
    IF timeperiod < 2
    THEN [raised |-> "TA_BAD_PARAM", value |-> <<>>]
    ELSE [raised |-> "",
          value  |-> [i \in 1..Len(close) |->
              IF i <= timeperiod THEN NaN
              ELSE LET gain == Wilder(close, timeperiod, i, TRUE)
                       loss == Wilder(close, timeperiod, i, FALSE)
                   IN  IF gain + loss = 0 THEN Num(0)
                       ELSE Num((100 * Resolution * gain) \div (gain + loss))]]

----------------------------------------------------------------------------
(* The chart composer *)

\* go.Figure()
Figure == [data |-> <<>>, shapes |-> <<>>, layout |-> <<>>]

add_trace(f, trace) == [f EXCEPT !.data = Append(@, trace)]

add_hline(f, y) == [f EXCEPT !.shapes = Append(@, [y |-> y, color |-> "red", dash |-> "dot"])]

update_layout(f, title_str) ==
    [f EXCEPT !.layout = <<[title |-> title_str, xaxis_title |-> "Date",
                            yaxis_title |-> "Price", template |-> "plotly_dark",
                            rangeslider |-> TRUE, dragmode |-> "pan"]>>]

Trace(type, name, x, y, style) == [type |-> type, name |-> name, x |-> x, y |-> y, style |-> style]

Element(kind, body) == [kind |-> kind, body |-> body]

\* df.empty: some axis of the table has length 0
Empty(frame) == Len(frame.index) = 0 \/ Len(frame.columns) = 0

\* lines 88-94: the candlestick trace
add_candlestick(f, frame) ==
    add_trace(f, Trace("candlestick", "Price", frame.index,
                       [open |-> frame.data["Open"], close |-> frame.data["Close"],
                        high |-> frame.data["High"], low |-> frame.data["Low"]], "default"))

\* lines 98-106: the RSI line and its two threshold lines
add_rsi(f, frame, p, rsi) ==
    add_hline(add_hline(add_trace(f,
        Trace("scatter", "RSI " \o ToString(p.rsi_periods), frame.index, rsi, "green")),
        p.rsi_upper), p.rsi_lower)

\* the volume bars had they been added whatever the checkbox holds
add_volume_unflagged(f, frame, p) ==
    add_trace(f, Trace("bar", "Volume", frame.index, frame.data["Volume"], "orange"))

\* lines 109-115: the volume bars
add_volume(f, frame, p) ==
    IF p.volume_flag
    THEN add_trace(f, Trace("bar", "Volume", frame.index, frame.data["Volume"], "orange"))
    ELSE f

\* lines 118-126: the SMA line
add_sma(f, frame, p) ==
    IF p.sma_flag
    THEN add_trace(f, Trace("scatter", "SMA " \o ToString(p.sma_periods), frame.index,
                            rolling_mean(frame.data["Close"], p.sma_periods), "blue"))
    ELSE f

\* lines 129-148: the two Bollinger lines
add_bands(f, frame, p) ==
    IF p.bb_flag
    THEN add_trace(add_trace(f,
             Trace("scatter", "Upper Bollinger Band", frame.index,
                   upper_band(frame.data["Close"], p.bb_periods, p.bb_std), "red dash")),
             Trace("scatter", "Lower Bollinger Band", frame.index,
                   lower_band(frame.data["Close"], p.bb_periods, p.bb_std), "red dash"))
    ELSE f

\* lines 82-166: the figure built, the exception that ended the build (if
\* any) and the elements put on the page
Compose(frame, p, tickers_companies_dict) ==
    IF Empty(frame)
    THEN [fig |-> Figure, raised |-> "",
          elements |-> <<Element("error", "No Data Available for the Selected Stock and Date range")>>]
    ELSE
    LET price == add_candlestick(Figure, frame)
        rsi   == talib_RSI(frame.data["Close"], p.rsi_periods)
    IN  IF p.rsi_flag /\ rsi.raised # ""
        THEN [fig |-> price, raised |-> rsi.raised,
              elements |-> <<Element("exception", rsi.raised)>>]
        ELSE LET withRsi == IF p.rsi_flag THEN add_rsi(price, frame, p, rsi.value) ELSE price
                 traced  == add_bands(add_sma(add_volume(withRsi, frame, p), frame, p), frame, p)
                 final   == update_layout(traced,
                                tickers_companies_dict[p.ticker] \o "'s Stock Price")
             IN  [fig |-> final, raised |-> "",
                  elements |-> <<Element("plotly_chart", final)>>]

----------------------------------------------------------------------------
(* The widget values of one run *)

\* ui before the sidebar widgets are read
NoInputs ==
    [ticker |-> "", start_date |-> 0, end_date |-> 0, volume_flag |-> FALSE,
     sma_flag |-> FALSE, sma_periods |-> 20,
     bb_flag |-> FALSE, bb_periods |-> 1, bb_std |-> 1,
     rsi_flag |-> FALSE, rsi_periods |-> 1, rsi_upper |-> 50, rsi_lower |-> 10,
     columns_to_show |-> <<>>]

\* the SMA widgets (lines 44-46); the period of a disabled indicator is never
\* read and stays at the widget's default
SmaOff == {[flag |-> FALSE, periods |-> 20]}
SmaOn(periods) == {[flag |-> TRUE, periods |-> w] : w \in periods}

\* the Bollinger widgets (lines 49-52)
BbOff == {[flag |-> FALSE, periods |-> 1, std |-> 1]}
BbOn(periods, widths) == {[flag |-> TRUE, periods |-> w, std |-> k] : w \in periods, k \in widths}

\* the RSI widgets (lines 54-58)
RsiOff == {[flag |-> FALSE, periods |-> 1, upper |-> 50]}
RsiOn(periods, uppers) == {[flag |-> TRUE, periods |-> w, upper |-> u] : w \in periods, u \in uppers}

\* the values the widgets of lines 35-58 return
WidgetValues(tickers, starts, ends, volumes, smas, bbs, rsis) ==
    {[ticker |-> t, start_date |-> s, end_date |-> e, volume_flag |-> v,
      sma_flag |-> sma.flag, sma_periods |-> sma.periods,
      bb_flag |-> bb.flag, bb_periods |-> bb.periods, bb_std |-> bb.std,
      rsi_flag |-> rsi.flag, rsi_periods |-> rsi.periods,
      rsi_upper |-> rsi.upper, rsi_lower |-> 10,
      columns_to_show |-> <<>>] :
        t \in tickers, s \in starts, e \in ends, v \in volumes,
        sma \in smas, bb \in bbs, rsi \in rsis}

\* the column selections the multiselect of line 73 returns: the default (all
\* columns), none, one, and two picked in another order than the table's
ColumnSelections == {Columns, <<>>, <<"Close">>, <<"Volume", "Open">>}

\* the preview and the export had they been made for a non-empty table only
ContentElementsIfData(frame, cols, ticker) ==
    IF Empty(frame) THEN <<>>
    ELSE << Element("dataframe", Select(frame, cols)),
            Element("download_button",
                    [data |-> convert_df_to_csv(Select(frame, cols)),
                     file_name |-> ticker \o " Daily Stock Prices",
                     mime |-> "text/csv"]) >>

\* lines 71-79: the preview and the download button
ContentElements(frame, cols, ticker) ==
    << Element("dataframe", Select(frame, cols)),
       Element("download_button",
               [data |-> convert_df_to_csv(Select(frame, cols)),
                file_name |-> ticker \o " Daily Stock Prices",
                mime |-> "text/csv"]) >>

----------------------------------------------------------------------------
(* The steps of a run *)

Calls == requests_sent + Len(downloads)

Init ==
    /\ pc = "idle"
    /\ directory_cache = <<>>
    /\ load_cache = <<>>
    /\ requests_sent = 0
    /\ downloads = <<>>
    /\ ui = NoInputs
    /\ df = NoFrame
    /\ fig = Figure
    /\ page = <<>>

\* a user interaction reruns the script: lines 33-34
LoadDirectory ==
    /\ pc \in {"idle", "done", "aborted"}
    /\ \E outcome \in FetchOutcomes :
         LET r == get_sp500_components(directory_cache, outcome)
         IN  /\ Calls + r.sent <= MaxCalls
             /\ directory_cache' = r.cache
             /\ requests_sent' = requests_sent + r.sent
             /\ page' = IF r.raised = "" THEN <<>> ELSE <<Element("exception", r.raised)>>
             /\ pc' = IF r.raised = "" THEN "sidebar" ELSE "aborted"
    /\ ui' = NoInputs
    /\ df' = NoFrame
    /\ fig' = Figure
    /\ UNCHANGED <<load_cache, downloads>>

\* lines 35-58: the sidebar widgets and the date check
Sidebar ==
    /\ pc = "sidebar"
    /\ \E p \in WidgetValues({directory_cache[1].tickers[i] : i \in 1..Len(directory_cache[1].tickers)},
                             Dates, Dates, BOOLEAN, SmaOff \cup SmaOn(SidebarPeriods),
                             BbOff \cup BbOn(SidebarPeriods, {2}),
                             RsiOff \cup RsiOn(SidebarPeriods, {50, 90})) :
         /\ ui' = p
         /\ page' = IF p.start_date > p.end_date
                    THEN Append(page, Element("sidebar.error",
                                              "The End Date must fall after the Start Date"))
                    ELSE page
    /\ pc' = "content"
    /\ UNCHANGED <<directory_cache, load_cache, requests_sent, downloads, df, fig>>

\* lines 61-79: the price load, the preview and the export
Content ==
    /\ pc = "content"
    /\ \E has_data \in BOOLEAN, cols \in ColumnSelections :
         LET r == load_data(load_cache, ui.ticker, ui.start_date, ui.end_date, has_data)
         IN  /\ Calls + Len(r.queried) <= MaxCalls
             /\ load_cache' = r.cache
             /\ downloads' = downloads \o r.queried
             /\ df' = r.value
             /\ ui' = [ui EXCEPT !.columns_to_show = cols]
             /\ page' = page \o ContentElements(r.value, cols, ui.ticker)
    /\ pc' = "plot"
    /\ UNCHANGED <<directory_cache, requests_sent, fig>>

\* lines 82-166: the empty-table check and the chart
Plot ==
    /\ pc = "plot"
    /\ LET r == Compose(df, ui, directory_cache[1].dict)
       IN  /\ fig' = r.fig
           /\ page' = page \o r.elements
           /\ pc' = IF r.raised = "" THEN "done" ELSE "aborted"
    /\ UNCHANGED <<directory_cache, load_cache, requests_sent, downloads, ui, df>>

Next == LoadDirectory \/ Sidebar \/ Content \/ Plot

Spec == Init /\ [][Next]_vars

----------------------------------------------------------------------------
(* The indicator functions on drawn close series: a run that stands at the  *)
(* chart step with a non-empty table whose closes are any series of 1 to    *)
(* MaxLen prices, and one indicator enabled with any window up to MaxPeriod *)

FrameOfCloses(close) ==
    Frame(DayRange(1, Len(close)),
          [i \in 1..Len(close) |->
              [Open |-> close[i], High |-> close[i], Low |-> close[i],
               Close |-> close[i], Volume |-> 100]])

CloseSeries == UNION {[1..n -> 1..MaxPrice] : n \in 1..MaxLen}

\* the Bollinger multipliers drawn, of the 1..4 the widget allows
BandWidths == {1, 2, 4}

OneIndicator ==
    LET values(smas, bbs, rsis) == WidgetValues({"AAPL"}, {1}, {1}, {FALSE}, smas, bbs, rsis)
    IN  values(SmaOn(1..MaxPeriod), BbOff, RsiOff)
            \cup values(SmaOff, BbOn(1..MaxPeriod, BandWidths), RsiOff)
            \cup values(SmaOff, BbOff, RsiOn(1..MaxPeriod, {70}))

IndicatorInit ==
    \E close \in CloseSeries, p \in OneIndicator :
        LET frame == FrameOfCloses(close)
            key   == <<p.ticker, p.start_date, Len(close)>>
        IN  /\ pc = "plot"
            /\ directory_cache = get_sp500_components(<<>>, "ok").cache
            /\ load_cache = (key :> frame)
            /\ requests_sent = 1
            /\ downloads = <<key>>
            /\ ui = [p EXCEPT !.end_date = Len(close), !.columns_to_show = Columns]
            /\ df = frame
            /\ fig = Figure
            /\ page = ContentElements(frame, Columns, p.ticker)

IndicatorSpec == IndicatorInit /\ [][Plot]_vars

----------------------------------------------------------------------------
(* Reading the page and the exported file *)

Shown(kind) == \E i \in 1..Len(page) : page[i].kind = kind

IndexOf(kind) == CHOOSE i \in 1..Len(page) : page[i].kind = kind

BodyOf(kind) == page[IndexOf(kind)].body

\* load_data has returned in the current run
Loaded == Shown("dataframe")

RunEnded == pc \in {"done", "aborted"}

LoadKey == <<ui.ticker, ui.start_date, ui.end_date>>

\* the trace of the figure with the given name
TraceNamed(name) == fig.data[CHOOSE i \in 1..Len(fig.data) : fig.data[i].name = name]

\* a CSV reader: the lines of a file, each as its comma-separated fields
RECURSIVE ReadLines(_, _, _)
ReadLines(bytes, line, lines) ==
    IF bytes = <<>> THEN lines
    ELSE IF Head(bytes) = "\n" THEN ReadLines(Tail(bytes), <<>>, Append(lines, line))
    ELSE IF Head(bytes) = "," THEN ReadLines(Tail(bytes), line, lines)
    ELSE ReadLines(Tail(bytes), Append(line, Head(bytes)), lines)

read_csv(bytes) ==
    LET lines == ReadLines(bytes, <<>>, <<>>)
    IN  [header |-> lines[1], rows |-> Tail(lines)]

Count(flag) == IF flag THEN 1 ELSE 0

----------------------------------------------------------------------------
(* The claims *)

\* C1: once a run whose price load returned has ended, an empty table means
\* the page error is shown, the figure holds no trace and no threshold line
\* and no chart is rendered; a non-empty table means no page error and a
\* rendered chart.
C1_EmptyTableErrorElseChart ==
    (RunEnded /\ Loaded) =>
        IF Empty(df)
        THEN Shown("error") /\ ~Shown("plotly_chart") /\ fig.data = <<>> /\ fig.shapes = <<>>
        ELSE ~Shown("error") /\ Shown("plotly_chart")

\* C2: the sidebar warning is shown exactly when the start date is after the
\* end date, and it blocks nothing: a warned run is never aborted, its price
\* load is made (and cached) under exactly the entered (ticker, start, end),
\* the preview and the export follow, and the run ends with the empty-table
\* check having put the page error.
C2_DateWarningDoesNotBlock ==
    /\ (pc \in {"content", "plot", "done"} \/ (pc = "aborted" /\ Loaded))
           => (Shown("sidebar.error") <=> ui.start_date > ui.end_date)
    /\ Shown("sidebar.error") => pc \in {"content", "plot", "done"}
    /\ (Shown("sidebar.error") /\ pc \in {"plot", "done"}) =>
           /\ LoadKey \in DOMAIN load_cache
           /\ df = load_cache[LoadKey]
           /\ \E i \in 1..Len(downloads) : downloads[i] = LoadKey
           /\ Shown("dataframe") /\ Shown("download_button")
    /\ (Shown("sidebar.error") /\ pc = "done") => Shown("error")

C2_WarnedRunEnds == pc = "done" /\ Shown("sidebar.error") /\ Shown("error")

\* C3: the ticker-list page has been requested exactly once as soon as a run
\* has started, the provider has been queried at most once per (symbol,
\* start, end), and the cache holds exactly the tuples queried.
C3_OneRequestPerKey ==
    /\ pc # "idle" => requests_sent = 1
    /\ \A i, j \in 1..Len(downloads) : downloads[i] = downloads[j] => i = j
    /\ DOMAIN load_cache = {downloads[i] : i \in 1..Len(downloads)}

\* C4: a failed load of the ticker directory never aborts the run.
C4_DirectoryFaultReported == ~(pc = "aborted" /\ directory_cache = <<>>)

\* C5: a rendered chart holds the candlestick first, then the enabled
\* overlays in the order RSI, volume, SMA, Bollinger upper, Bollinger lower,
\* and nothing else; the threshold lines are the RSI upper and lower values
\* when RSI is enabled and none otherwise.
C5_TraceOrder ==
    (pc = "done" /\ ~Empty(df)) =>
        LET expected ==
                <<(<<"candlestick", "Price">>)>>
                \o (IF ui.rsi_flag THEN <<(<<"scatter", "RSI " \o ToString(ui.rsi_periods)>>)>> ELSE <<>>)
                \o (IF ui.volume_flag THEN <<(<<"bar", "Volume">>)>> ELSE <<>>)
                \o (IF ui.sma_flag THEN <<(<<"scatter", "SMA " \o ToString(ui.sma_periods)>>)>> ELSE <<>>)
                \o (IF ui.bb_flag THEN << <<"scatter", "Upper Bollinger Band">>,
                                          <<"scatter", "Lower Bollinger Band">> >> ELSE <<>>)
        IN  /\ [i \in 1..Len(fig.data) |-> <<fig.data[i].type, fig.data[i].name>>] = expected
            /\ Len(fig.data) = 1 + Count(ui.rsi_flag) + Count(ui.volume_flag)
                                 + Count(ui.sma_flag) + 2 * Count(ui.bb_flag)
            /\ [i \in 1..Len(fig.shapes) |-> fig.shapes[i].y]
                   = (IF ui.rsi_flag THEN <<ui.rsi_upper, ui.rsi_lower>> ELSE <<>>)
            /\ \A i \in 1..Len(fig.data) : fig.data[i].x = df.index
            /\ Shown("plotly_chart") /\ BodyOf("plotly_chart") = fig

C5_AllOverlays ==
    /\ pc = "done" /\ Len(fig.data) = 6 /\ Len(fig.shapes) = 2
    /\ ui.rsi_flag /\ ui.volume_flag /\ ui.sma_flag /\ ui.bb_flag

\* a series of n positions whose first w-1 (all, when n < w) are missing and
\* whose others are numeric
WarmUp(y, w, n) == Len(y) = n /\ \A i \in 1..Len(y) : y[i].nan <=> i < w

\* C6: the chart step never faults, and each enabled indicator's series has
\* one position per row, missing in the first w-1 rows and numeric after.
C6_IndicatorWarmUp ==
    pc # "plot" =>
        /\ pc = "done"
        /\ ui.sma_flag =>
               WarmUp(TraceNamed("SMA " \o ToString(ui.sma_periods)).y, ui.sma_periods, Len(df.index))
        /\ ui.bb_flag =>
               /\ WarmUp(TraceNamed("Upper Bollinger Band").y, ui.bb_periods, Len(df.index))
               /\ WarmUp(TraceNamed("Lower Bollinger Band").y, ui.bb_periods, Len(df.index))
        /\ ui.rsi_flag =>
               WarmUp(TraceNamed("RSI " \o ToString(ui.rsi_periods)).y, ui.rsi_periods, Len(df.index))

\* C7: the SMA series has one position per row; the first w-1 are missing
\* and every other holds exactly the mean of the w closes ending at its row.
C7_SmaIsTrailingMean ==
    (pc = "done" /\ ~Empty(df) /\ ui.sma_flag) =>
        LET w == ui.sma_periods
            close == df.data["Close"]
            y == TraceNamed("SMA " \o ToString(w)).y
        IN  /\ Len(y) = Len(close)
            /\ \A i \in 1..Len(y) :
                   IF i < w THEN y[i].nan
                   ELSE ~y[i].nan /\ y[i].v * w = Resolution * SumRange(close, i - w + 1, i)
            /\ Len(close) >= w =>
                   /\ Cardinality({i \in 1..Len(y) : y[i].nan}) = w - 1
                   /\ Cardinality({i \in 1..Len(y) : ~y[i].nan}) = Len(close) - w + 1

C7_SmaDefined ==
    /\ pc = "done" /\ ui.sma_flag /\ ui.sma_periods = 2
    /\ df.data["Close"] = <<1, 3, 2>>
    /\ TraceNamed("SMA 2").y[3] = Num((5 * Resolution) \div 2)

\* C8: wherever a band is defined, upper = mean + k * std and
\* lower = mean - k * std for the mean and the sample standard deviation
\* (rounded down) of the window of closes ending there, so upper >= mean >=
\* lower; both bands are defined at the same rows.
C8_BandsAroundMean ==
    (pc = "done" /\ ~Empty(df) /\ ui.bb_flag) =>
        LET w == ui.bb_periods
            k == ui.bb_std
            close == df.data["Close"]
            upper == TraceNamed("Upper Bollinger Band").y
            lower == TraceNamed("Lower Bollinger Band").y
        IN  \A i \in 1..Len(close) :
                /\ upper[i].nan <=> lower[i].nan
                /\ ~upper[i].nan =>
                       LET sum  == SumRange(close, i - w + 1, i)
                           squares == SumSquares(close, i - w + 1, i)
                           mean == (Resolution * sum) \div w
                           std  == (upper[i].v - mean) \div k
                       IN  /\ i >= w /\ mean * w = Resolution * sum
                           /\ upper[i].v >= mean /\ mean >= lower[i].v
                           /\ upper[i].v = mean + k * std
                           /\ lower[i].v = mean - k * std
                           /\ std * std * w * (w - 1)
                                  <= (w * squares - sum * sum) * Resolution * Resolution
                           /\ (w * squares - sum * sum) * Resolution * Resolution
                                  < (std + 1) * (std + 1) * w * (w - 1)

C8_BandsApart ==
    /\ pc = "done" /\ ui.bb_flag /\ ui.bb_std = 4
    /\ \E i \in 1..Len(df.index) :
           /\ ~TraceNamed("Upper Bollinger Band").y[i].nan
           /\ TraceNamed("Upper Bollinger Band").y[i].v > TraceNamed("Lower Bollinger Band").y[i].v

\* C9: the exported file reads back as a header line holding the index
\* label and then exactly the selected columns in the selected order, and
\* one line per row of the table, each starting with the row's date and
\* holding one field per selected column.
C9_ExportShape ==
    Loaded =>
        LET file == read_csv(BodyOf("download_button").data)
            cols == ui.columns_to_show
        IN  /\ file.header = <<"Date">> \o cols
            /\ Tail(file.header) = BodyOf("dataframe").columns
            /\ Len(file.rows) = Len(df.index)
            /\ \A i \in 1..Len(file.rows) :
                   /\ Len(file.rows[i]) = 1 + Len(cols)
                   /\ file.rows[i][1] = ToString(df.index[i])

C9_ReorderedSelection ==
    /\ Loaded /\ ui.columns_to_show = <<"Volume", "Open">> /\ Len(df.index) = 2
    /\ read_csv(BodyOf("download_button").data).header = <<"Date", "Volume", "Open">>

\* C10: whenever the price load has returned, the preview and the download
\* button are on the page, in that order and before the page error, the
\* chart or an exception; the button's file name is the selected ticker
\* followed by " Daily Stock Prices", its MIME type is text/csv, and its
\* file holds the cached table's values of the selected columns, whatever
\* the indicator widgets hold.
C10_ExportBeforeChart ==
    /\ (pc \in {"plot", "done"} \/ (pc = "aborted" /\ directory_cache # <<>>)) => Loaded
    /\ Loaded =>
           LET button == BodyOf("download_button")
               cols   == ui.columns_to_show
               table  == load_cache[LoadKey]
           IN  /\ Shown("download_button")
               /\ IndexOf("dataframe") < IndexOf("download_button")
               /\ \A k \in 1..Len(page) :
                      page[k].kind \in {"error", "plotly_chart", "exception"}
                          => IndexOf("download_button") < k
               /\ button.file_name = ui.ticker \o " Daily Stock Prices"
               /\ button.mime = "text/csv"
               /\ read_csv(button.data).rows =
                      [i \in 1..Len(table.index) |->
                          <<ToString(table.index[i])>> \o
                              [j \in 1..Len(cols) |-> ToString(table.data[cols[j]][i])]]

C10_ExportOfEmptyTable ==
    /\ pc = "done" /\ Shown("error") /\ Shown("download_button")
    /\ ui.rsi_flag /\ ui.bb_flag /\ ~Shown("sidebar.error")

----------------------------------------------------------------------------
(* What stands of the claims that fail *)

\* of C1: an empty table always ends in the page error with no trace and no
\* chart; a non-empty one never shows the page error, and a run that reaches
\* its end with one has rendered the chart
EmptyTableShowsError ==
    /\ (RunEnded /\ Loaded /\ Empty(df)) =>
           Shown("error") /\ ~Shown("plotly_chart") /\ fig.data = <<>> /\ fig.shapes = <<>>
    /\ (Loaded /\ ~Empty(df)) => ~Shown("error")
    /\ (pc = "done" /\ ~Empty(df)) => Shown("plotly_chart")
    /\ (pc = "aborted" /\ Loaded) => ui.rsi_flag /\ ui.rsi_periods < 2

\* of C3: the provider is queried at most once per tuple, the cache holds
\* exactly the tuples queried, and the table a run uses is the cached one
ProviderQueriedOncePerKey ==
    /\ \A i, j \in 1..Len(downloads) : downloads[i] = downloads[j] => i = j
    /\ DOMAIN load_cache = {downloads[i] : i \in 1..Len(downloads)}
    /\ Loaded => df = load_cache[LoadKey]
    /\ directory_cache = <<>> => load_cache = <<>>

\* of C3: nothing is evicted or replaced, a cached tuple is not queried again,
\* and the ticker-list page is not requested again once a request succeeded
CachesOnlyGrow ==
    [][/\ \A k \in DOMAIN load_cache : k \in DOMAIN load_cache' /\ load_cache'[k] = load_cache[k]
       /\ directory_cache # <<>> =>
              directory_cache' = directory_cache /\ requests_sent' = requests_sent
       /\ (pc = "content" /\ LoadKey \in DOMAIN load_cache) => downloads' = downloads
       /\ (pc = "content" /\ LoadKey \notin DOMAIN load_cache) =>
              downloads' = Append(downloads, LoadKey)]_vars

\* of C6: with a period of 2 or more RSI has one position per row, the first
\* timeperiod of them missing; Bollinger bands of a one-row window are missing
\* everywhere
RsiWarmUp ==
    /\ (pc = "done" /\ ~Empty(df) /\ ui.rsi_flag) =>
           LET y == TraceNamed("RSI " \o ToString(ui.rsi_periods)).y
           IN  Len(y) = Len(df.index) /\ \A i \in 1..Len(y) : y[i].nan <=> i <= ui.rsi_periods
    /\ (pc = "done" /\ ~Empty(df) /\ ui.bb_flag /\ ui.bb_periods = 1) =>
           \A i \in 1..Len(df.index) : TraceNamed("Upper Bollinger Band").y[i].nan

====
